---------------------------- MODULE Spec2Model ----------------------------
(***************************************************************************)
(* Weekly sentiment scraper (DictionSentimentEmailAnalyzer.py).            *)
(*                                                                         *)
(* The module models the scoring functions (score_lookup,                  *)
(* classify_sentiment), the price snapshot function (get_price_change),    *)
(* the per-ticker scraping loop (scrape_finviz_and_yahoo) and the summary  *)
(* built by the main block (price_change_pct under groupby).               *)
(*                                                                         *)
(* Encodings                                                               *)
(*   text      a sequence of atoms; an atom is a run of word characters    *)
(*             (a string such as "beat") or one non-word character         *)
(*   price     a positive integer, or NA for the string 'N/A'              *)
(*   datetime  a record [day, hour, minute, second, micro]; day 0 is the   *)
(*             Monday that opens the weekly window, day mod 7 the weekday  *)
(*   compound  VADER's compound score times 10                             *)
(*   means     exact rationals [n, d] in lowest terms                      *)
(***************************************************************************)
EXTENDS Integers, Sequences, FiniteSets, TLC

VARIABLES
    \* score_lookup on its own
    text, lookup,
    \* classify_sentiment on its own
    vtext, vader,
    \* get_price_change on its own
    pdt, hist, prices,
    \* the timestamp conversion and window filter of one row on their own
    dtext, stamp,
    \* the run: scrape_finviz_and_yahoo followed by the main block
    pc, idx, status, rowsSeen, collected, fetches, clock, sleeps, attempts,
    pageLog, result, df, summary

lookupVars == <<text, lookup>>
vaderVars == <<vtext, vader>>
priceVars == <<pdt, hist, prices>>
timeVars == <<dtext, stamp>>
runVars == <<idx, status, rowsSeen, collected, fetches, clock, sleeps,
             attempts, pageLog, result, df, summary>>
vars == <<lookupVars, vaderVars, priceVars, timeVars, runVars, pc>>

-----------------------------------------------------------------------------
(* Bounds *)

MaxLookupLen == 5
MaxVaderLen == 5
MaxBars == 3
NumTickers == 2
MaxRows == 2
Today == 9

-----------------------------------------------------------------------------
(* Datetimes and the weekly window of the main block *)

Dt(d, h, m, s, us) ==
    [day |-> d, hour |-> h, minute |-> m, second |-> s, micro |-> us]

DtLess(a, b) ==
    \/ a.day < b.day
    \/ a.day = b.day /\ a.hour < b.hour
    \/ a.day = b.day /\ a.hour = b.hour /\ a.minute < b.minute
    \/ a.day = b.day /\ a.hour = b.hour /\ a.minute = b.minute
       /\ a.second < b.second
    \/ a.day = b.day /\ a.hour = b.hour /\ a.minute = b.minute
       /\ a.second = b.second /\ a.micro < b.micro

DtLeq(a, b) == a = b \/ DtLess(a, b)

Weekday(d) == d % 7

last_sunday == Today - (Weekday(Today) + 1)
last_monday == last_sunday - 6
start == Dt(last_monday, 0, 0, 0, 0)
end == Dt(last_sunday, 23, 59, 59, 999999)

-----------------------------------------------------------------------------
(* Generic helpers *)

Abs(n) == IF n < 0 THEN -n ELSE n

RECURSIVE Gcd(_, _)
Gcd(a, b) == IF b = 0 THEN a ELSE Gcd(b, a % b)

\* n/d as a rational in lowest terms with a positive denominator (d # 0)
Rat(n, d) ==
    LET g == Gcd(Abs(n), Abs(d))
        s == IF d < 0 THEN -1 ELSE 1
    IN  [n |-> s * (n \div g), d |-> s * (d \div g)]

RatAdd(a, b) == Rat(a.n * b.d + b.n * a.d, a.d * b.d)

RECURSIVE RatSum(_)
RatSum(s) == IF s = <<>> THEN Rat(0, 1) ELSE RatAdd(Head(s), RatSum(Tail(s)))

\* sum(s) / len(s) for a non-empty list of rationals
RatMean(s) == LET t == RatSum(s) IN Rat(t.n, t.d * Len(s))

Sign(n) == IF n > 0 THEN 1 ELSE IF n < 0 THEN -1 ELSE 0

-----------------------------------------------------------------------------
(* Text: atoms, lowercasing and the \w+ tokenizer *)

\* the non-word characters the model's texts use
NonWord == {" ", ",", ".", "!", "?"}

\* str.lower() on a word atom
Lower(a) ==
    CASE a = "Beat" -> "beat"
      [] a = "BEAT" -> "beat"
      [] a = "Miss" -> "miss"
      [] a = "MISS" -> "miss"
      [] a = "Gain" -> "gain"
      [] OTHER -> a

\* re.findall(r"\w+", text.lower()): maximal runs of word characters, so
\* word atoms that touch form one token
RECURSIVE FindAllWords(_, _, _)
FindAllWords(t, cur, acc) ==
    IF t = <<>>
    THEN IF cur = "" THEN acc ELSE Append(acc, cur)
    ELSE IF Head(t) \in NonWord
         THEN FindAllWords(Tail(t), "", IF cur = "" THEN acc ELSE Append(acc, cur))
         ELSE FindAllWords(Tail(t), cur \o Lower(Head(t)), acc)

Tokens(t) == FindAllWords(t, "", <<>>)

positive_keywords == {
    "beat", "beats", "beating", "exceed", "exceeds", "exceeded", "exceeding",
    "surge", "surges", "surged", "soar", "soars", "soared", "rally", "rallies",
    "rallied", "jump", "jumps", "jumped", "spike", "spikes", "spiked", "pop",
    "pops", "popped", "gain", "gains", "gained", "advance", "advances",
    "advanced", "rise", "rises", "rose", "upbeat", "bull", "bullish",
    "optimism", "optimistic", "confidence", "confident", "strong", "strength",
    "robust", "resilient", "resilience", "record", "high", "highs", "profit",
    "profits", "profitable", "profitability", "margin", "margins", "expand",
    "expands", "expanded", "expanding", "growth", "growing", "accelerate",
    "accelerates", "accelerated", "accelerating", "outperform", "outperforms",
    "outperformed", "outperforming", "upgrade", "upgrades", "upgraded",
    "upgrading", "overweight", "buy", "buying", "accumulate", "accumulating",
    "initiate", "initiates", "initiated", "initiating", "guidance", "raise",
    "raises", "raised", "raising", "hike", "hikes", "hiked", "dividend",
    "dividends", "increase", "increases", "increased", "increasing",
    "buyback", "buybacks", "repurchase", "repurchases" }

negative_keywords == {
    "miss", "misses", "missed", "missing", "lag", "lags", "lagged", "lagging",
    "plunge", "plunges", "plunged", "plunging", "tumble", "tumbles", "tumbled",
    "tumbling", "drop", "drops", "dropped", "dropping", "fall", "falls", "fell",
    "falling", "slump", "slumps", "slumped", "slumping", "slide", "slides",
    "slid", "sliding", "decline", "declines", "declined", "declining",
    "selloff", "selloffs", "weak", "weakness", "soft", "softness", "bear",
    "bearish", "pessimism", "pessimistic", "fear", "loss", "losses",
    "unprofitable", "compression", "compress", "compressed", "cut", "cuts",
    "cutting", "lower", "lowers", "lowered", "lowering", "reduce", "reduces",
    "reduced", "reducing", "downgrade", "downgrades", "downgraded",
    "downgrading", "underperform", "underperforms", "underperformed",
    "underperforming", "warning", "recall", "recalls", "recalled",
    "restructuring", "layoff", "layoffs", "furlough", "furloughs",
    "bankruptcy", "insolvency", "default", "defaults", "defaulted", "dilution",
    "dilutive", "lawsuit", "lawsuits", "probe", "probes", "investigation",
    "investigations", "fraud", "scandal", "resign", "resigns", "resigned",
    "resignation" }

-----------------------------------------------------------------------------
(* score_lookup *)

IsPositive(w) == w \in positive_keywords
IsNegative(w) == w \in negative_keywords

RECURSIVE SeqToSet(_)
SeqToSet(s) == IF s = <<>> THEN {} ELSE {Head(s)} \cup SeqToSet(Tail(s))

\* a plausible slip: each matched word counted once however often it occurs
score_lookup_distinct(t) ==
    LET tokens == Tokens(t)
        pos_matches == SelectSeq(tokens, IsPositive)
        neg_matches == SelectSeq(tokens, IsNegative)
        np == Cardinality(SeqToSet(pos_matches))
        nn == Cardinality(SeqToSet(neg_matches))
    IN  [score |-> IF np > nn THEN 1 ELSE IF nn > np THEN -1 ELSE 0,
         pos_words |-> pos_matches,
         neg_words |-> neg_matches,
         ambiguous |-> (pos_matches # <<>> /\ neg_matches # <<>>)]

\* the matched words are kept as lists; ', '.join only renders them
score_lookup(t) ==
    LET tokens == Tokens(t)
        pos_matches == SelectSeq(tokens, IsPositive)
        neg_matches == SelectSeq(tokens, IsNegative)
    IN  [score |-> IF Len(pos_matches) > Len(neg_matches) THEN 1
                   ELSE IF Len(neg_matches) > Len(pos_matches) THEN -1
                   ELSE 0,
         pos_words |-> pos_matches,
         neg_words |-> neg_matches,
         ambiguous |-> (pos_matches # <<>> /\ neg_matches # <<>>)]

-----------------------------------------------------------------------------
(* classify_sentiment *)

SentenceEnd == {".", "!", "?"}

\* re.split(r'[.!?]', text): one candidate before each delimiter and one
\* after the last, empty candidates included
RECURSIVE ReSplit(_, _, _)
ReSplit(t, cur, acc) ==
    IF t = <<>>
    THEN Append(acc, cur)
    ELSE IF Head(t) \in SentenceEnd
         THEN ReSplit(Tail(t), <<>>, Append(acc, cur))
         ELSE ReSplit(Tail(t), Append(cur, Head(t)), acc)

\* The sentiment analyzer is an external capability.  Its stand-in gives each
\* word a valence and adds them up, clipped to [-10, 10]; a candidate with no
\* word in it scores 0, as the analyzer does for empty input.
Valence(w) ==
    CASE w = "gain" -> 3
      [] w = "rise" -> 2
      [] w = "beat" -> 5
      [] w = "miss" -> -3
      [] w = "fear" -> -2
      [] OTHER -> 0

RECURSIVE ValenceSum(_)
ValenceSum(ws) == IF ws = <<>> THEN 0 ELSE Valence(Head(ws)) + ValenceSum(Tail(ws))

polarity_compound(s) ==
    LET v == ValenceSum(Tokens(s))
    IN  IF v > 10 THEN 10 ELSE IF v < -10 THEN -10 ELSE v

PosCompound == 3
NegCompound == -3
VoteNum == 7
VoteDen == 10

IsPosSentence(s) == polarity_compound(s) >= PosCompound
IsNegSentence(s) == ~IsPosSentence(s) /\ polarity_compound(s) <= NegCompound

classify_sentiment(t) ==
    LET parts == ReSplit(t, <<>>, <<>>)
        pos == Len(SelectSeq(parts, IsPosSentence))
        neg == Len(SelectSeq(parts, IsNegSentence))
        neu == Len(parts) - pos - neg
        total == pos + neg + neu
    IN  IF total = 0 THEN [score |-> 0, label |-> "neutral"]
        ELSE IF VoteDen * pos >= VoteNum * total
             THEN [score |-> 1, label |-> "positive"]
        ELSE IF VoteDen * neg >= VoteNum * total
             THEN [score |-> -1, label |-> "negative"]
        ELSE [score |-> 0, label |-> "neutral"]

-----------------------------------------------------------------------------
(* get_price_change *)

NA == -1
HistoryDays == 7
MarketCloseHour == 16

IsNumeric(p) == p # NA

AllNA == [price_now |-> NA, plus_1h |-> NA, plus_4h |-> NA,
          eow_price |-> NA, eod_price |-> NA, premarket |-> NA]

\* the reconciled design's request: the run's window, padded by seven days
HistoryRequestWindow(ticker, dt) ==
    [ticker |-> ticker, start |-> start.day, end |-> end.day + HistoryDays]

\* the daily bars asked of the price service: start is the event's own date,
\* end (exclusive) seven days later
HistoryRequest(ticker, dt) ==
    [ticker |-> ticker, start |-> dt.day, end |-> dt.day + HistoryDays]

\* the other design: open before the close of the market, close after it
get_price_change_open_or_close(dt, resp) ==
    IF ~resp.ok \/ resp.bars = <<>> THEN AllNA
    ELSE LET h == resp.bars
             OnDate(b) == b.date = dt.day
             row == SelectSeq(h, OnDate)
         IN  [price_now |-> IF row = <<>> THEN NA
                            ELSE IF dt.hour < MarketCloseHour THEN row[1].Open
                            ELSE row[1].Close,
              plus_1h |-> IF Len(h) > 1 THEN h[2].Close ELSE NA,
              plus_4h |-> IF Len(h) > 2 THEN h[3].Close ELSE NA,
              eow_price |-> h[Len(h)].Close,
              eod_price |-> IF row = <<>> THEN NA ELSE row[1].Close,
              premarket |-> h[1].Open]

\* the other design: no bar on the event's date, no prices at all
get_price_change_all_or_nothing(dt, resp) ==
    IF ~resp.ok \/ resp.bars = <<>> THEN AllNA
    ELSE LET h == resp.bars
             OnDate(b) == b.date = dt.day
             row == SelectSeq(h, OnDate)
         IN  IF row = <<>> THEN AllNA
             ELSE [price_now |-> row[1].Close,
                   plus_1h |-> IF Len(h) > 1 THEN h[2].Close ELSE NA,
                   plus_4h |-> IF Len(h) > 2 THEN h[3].Close ELSE NA,
                   eow_price |-> h[Len(h)].Close,
                   eod_price |-> row[1].Close,
                   premarket |-> h[1].Open]

\* resp is what the price service answered: ok = FALSE stands for any
\* exception inside the try block, bars for the frame it returned
get_price_change(dt, resp) ==
    IF ~resp.ok THEN AllNA
    ELSE LET h == resp.bars
             OnDate(b) == b.date = dt.day
             price_now_row == SelectSeq(h, OnDate)
         IN  IF h = <<>> THEN AllNA
             ELSE [price_now |-> IF price_now_row # <<>>
                                 THEN price_now_row[1].Close ELSE NA,
                   plus_1h |-> IF Len(h) > 1 THEN h[2].Close ELSE NA,
                   plus_4h |-> IF Len(h) > 2 THEN h[3].Close ELSE NA,
                   eow_price |-> h[Len(h)].Close,
                   eod_price |-> IF price_now_row # <<>>
                                 THEN price_now_row[1].Close ELSE NA,
                   premarket |-> h[1].Open]

-----------------------------------------------------------------------------
(* Values the variables hold while their part of the program is not running *)

NoLookup == [score |-> 0, pos_words |-> <<>>, neg_words |-> <<>>,
             ambiguous |-> FALSE]
NoVader == [score |-> 0, label |-> "neutral"]
NoResponse == [ok |-> FALSE, bars |-> <<>>]
NoDateText == [fmt |-> "other", day |-> 0, hour |-> 0, minute |-> 0,
               ampm |-> "AM"]
NoStamp == [parsed |-> FALSE, dt |-> Dt(0, 0, 0, 0, 0), kept |-> FALSE]

LookupIdle == text = <<>> /\ lookup = NoLookup
VaderIdle == vtext = <<>> /\ vader = NoVader
PriceIdle == pdt = Dt(0, 0, 0, 0, 0) /\ hist = NoResponse /\ prices = AllNA
TimeIdle == dtext = NoDateText /\ stamp = NoStamp
RunIdle ==
    /\ idx = 0 /\ status = <<>> /\ rowsSeen = 0 /\ collected = <<>>
    /\ fetches = <<>> /\ clock = 0 /\ sleeps = <<>> /\ attempts = <<>>
    /\ pageLog = <<>> /\ result = <<>> /\ df = <<>> /\ summary = <<>>

TextsUpTo(atoms, n) == UNION {[1..k -> atoms] : k \in 0..n}

-----------------------------------------------------------------------------
(* score_lookup applied to every short text over a small vocabulary *)

LookupAtoms == {"beat", "BEAT", "miss", "the", " ", ","}

InitLookup ==
    /\ pc = "lookup"
    /\ text \in TextsUpTo(LookupAtoms, MaxLookupLen)
    /\ lookup = NoLookup
    /\ VaderIdle /\ PriceIdle /\ TimeIdle /\ RunIdle

CallLookup ==
    /\ pc = "lookup"
    /\ lookup' = score_lookup(text)
    /\ pc' = "lookup_done"
    /\ UNCHANGED <<text, vaderVars, priceVars, timeVars, runVars>>

NextLookup == CallLookup

SpecLookup == InitLookup /\ [][NextLookup]_vars

-----------------------------------------------------------------------------
(* classify_sentiment applied to every short text over a small vocabulary *)

VaderAtoms == {"gain", "rise", "miss", " ", ".", "!", "?"}

InitVader ==
    /\ pc = "vader"
    /\ vtext \in TextsUpTo(VaderAtoms, MaxVaderLen)
    /\ vader = NoVader
    /\ LookupIdle /\ PriceIdle /\ TimeIdle /\ RunIdle

CallVader ==
    /\ pc = "vader"
    /\ vader' = classify_sentiment(vtext)
    /\ pc' = "vader_done"
    /\ UNCHANGED <<vtext, lookupVars, priceVars, timeVars, runVars>>

NextVader == CallVader

SpecVader == InitVader /\ [][NextVader]_vars

-----------------------------------------------------------------------------
(* get_price_change applied to every short series of daily bars *)

RECURSIVE SortedDays(_)
SortedDays(S) ==
    IF S = {} THEN <<>>
    ELSE LET m == CHOOSE x \in S : \A y \in S : x <= y
         IN  <<m>> \o SortedDays(S \ {m})

\* the frames the price service can answer with for a request starting on day
\* d: ascending dates inside [d, d + HistoryDays), any open, any close
Frames(d) ==
    UNION { { [i \in 1..Cardinality(S) |->
                 [date |-> SortedDays(S)[i],
                  Open |-> 10 + SortedDays(S)[i] - d,
                  Close |-> 10 + SortedDays(S)[i] - d + delta[SortedDays(S)[i]]]]
              : delta \in [S -> {0, 2}] }
            : S \in {T \in SUBSET (d..(d + HistoryDays - 1)) :
                        Cardinality(T) <= MaxBars} }

InitPrice ==
    /\ pc = "price"
    /\ pdt \in {Dt(d, h, m, 0, 0) : d \in {2}, h \in {10, 16}, m \in {0, 30}}
    /\ hist \in {NoResponse} \cup {[ok |-> TRUE, bars |-> f] : f \in Frames(pdt.day)}
    /\ prices = AllNA
    /\ LookupIdle /\ VaderIdle /\ TimeIdle /\ RunIdle

CallPrice ==
    /\ pc = "price"
    /\ prices' = get_price_change(pdt, hist)
    /\ pc' = "price_done"
    /\ UNCHANGED <<pdt, hist, lookupVars, vaderVars, timeVars, runVars>>

NextPrice == CallPrice

SpecPrice == InitPrice /\ [][NextPrice]_vars

-----------------------------------------------------------------------------
(* The run's inputs: the ticker list, the quote pages, the price service *)

\* tickers in alphabetical order, the order sort_values and groupby use
TickerOrder == <<"AAA", "BBB", "CCC", "DDD">>
TickerRank(t) == CHOOSE i \in 1..Len(TickerOrder) : TickerOrder[i] = t

\* finviz.csv lists them in an order of its own
InputTickers == <<"BBB", "AAA", "DDD", "CCC">>
tickers == SubSeq(InputTickers, 1, NumTickers)

Title1 == <<"Beat", " ", "miss">>
Title2 == <<"fear", ".">>
Article1 == <<"gain", ".", " ", "beat", "!">>

DateText(fmt, d, h, m, ampm) ==
    [fmt |-> fmt, day |-> d, hour |-> h, minute |-> m, ampm |-> ampm]

Row(n, link, cell, title, article) ==
    [ncells |-> n, has_link |-> link, date_text |-> cell, title |-> title,
     article |-> article]

\* rows of a news table: too few cells, no link, an unknown date format, a
\* "Today" row, rows dated inside the window (a Wednesday morning, a Saturday
\* evening) and a row dated after it
Rows == {
    Row(1, FALSE, DateText("abs", 2, 10, 0, "AM"), Title1, <<>>),
    Row(2, FALSE, DateText("abs", 2, 10, 0, "AM"), Title1, <<>>),
    Row(2, TRUE, DateText("other", 0, 12, 0, "AM"), Title1, <<>>),
    Row(2, TRUE, DateText("today", 0, 3, 15, "PM"), Title1, <<>>),
    Row(2, TRUE, DateText("abs", 2, 10, 0, "AM"), Title1, Article1),
    Row(2, TRUE, DateText("abs", 2, 10, 0, "AM"), Title2, <<>>),
    Row(2, TRUE, DateText("abs", 5, 5, 0, "PM"), Title1, <<>>),
    Row(2, TRUE, DateText("abs", 8, 9, 30, "AM"), Title2, <<>>) }

\* what scrape_article_text can return for a row's link: "" on any failure or
\* non-200 answer, else the page's paragraphs
ArticleTexts(row) == {<<>>, row.article}

\* the market: a bar on every weekday up to today
OpenPrice(t, d) == 10 * TickerRank(t) + 2 * d - 1
ClosePrice(t, d) == 10 * TickerRank(t) + 2 * d

RECURSIVE MarketBars(_, _, _)
MarketBars(t, from, to) ==
    IF from >= to THEN <<>>
    ELSE (IF Weekday(from) <= 4 /\ from <= Today
          THEN <<[date |-> from, Open |-> OpenPrice(t, from),
                  Close |-> ClosePrice(t, from)]>>
          ELSE <<>>) \o MarketBars(t, from + 1, to)

\* the price service fails, knows nothing of the ticker, or answers
PriceResponses(req) ==
    { NoResponse,
      [ok |-> TRUE, bars |-> <<>>],
      [ok |-> TRUE, bars |-> MarketBars(req.ticker, req.start, req.end)] }

\* the quote page request takes one unit of time, the model's other steps none
RequestTimes == {1}

\* status codes a quote page answer can carry
StatusCodes == {200, 503}

-----------------------------------------------------------------------------
(* scrape_finviz_and_yahoo: the row handling *)

\* the conversion with the `elif` for 12AM left out
Hour24_pm_only(h, ampm) ==
    IF ampm = "PM" /\ h # 12 THEN h + 12 ELSE h

Hour24(h, ampm) ==
    IF ampm = "PM" /\ h # 12 THEN h + 12
    ELSE IF ampm = "AM" /\ h = 12 THEN 0
    ELSE h

\* now.replace(hour=, minute=) raises outside these ranges
ValidClock(h, m) == h \in 0..23 /\ m \in 0..59

\* strptime's %I and %M raise outside these ranges
ValidClock12(h, m) == h \in 1..12 /\ m \in 0..59

\* the texts the `'Today' in date_text` test sends to the first branch: the
\* word "Today", or a longer first word holding it, followed by a time
TodayFormats == {"today", "today_embedded"}

\* the row's timestamp; ok = FALSE where the code skips the row: the text
\* reaches the `else`, or the branch it reaches raises and the row loop's
\* `except` moves on to the next row
ParseDateText(d) ==
    IF d.fmt \in TodayFormats
    THEN [ok |-> ValidClock(Hour24(d.hour, d.ampm), d.minute),
          dt |-> Dt(Today, Hour24(d.hour, d.ampm), d.minute, 0, 0)]
    ELSE IF d.fmt = "abs"
    THEN [ok |-> ValidClock12(d.hour, d.minute),
          dt |-> Dt(d.day, Hour24(d.hour, d.ampm), d.minute, 0, 0)]
    ELSE [ok |-> FALSE, dt |-> Dt(0, 0, 0, 0, 0)]

InWindow(dt) == DtLeq(start, dt) /\ DtLeq(dt, end)

\* the row passes every `continue` of the row loop
Accepted(row) ==
    /\ row.ncells >= 2
    /\ row.has_link
    /\ ParseDateText(row.date_text).ok
    /\ InWindow(ParseDateText(row.date_text).dt)

AfterClose(dt) ==
    \/ dt.hour > MarketCloseHour
    \/ dt.hour = MarketCloseHour
       /\ (dt.minute > 0 \/ dt.second > 0 \/ dt.micro > 0)

NewsEvent(t, dt, title, content, p) ==
    LET lk == score_lookup(content)
        vd == classify_sentiment(content)
    IN  [Ticker |-> t, Datetime |-> dt, Title |-> title, Content |-> content,
         Lookup_Score |-> lk.score, Pos_Words |-> lk.pos_words,
         Neg_Words |-> lk.neg_words, Ambiguous |-> lk.ambiguous,
         VADER_Score |-> vd.score, VADER_Label |-> vd.label,
         Weekend_News |-> (Weekday(dt.day) >= 5),
         After_Market_Close |-> AfterClose(dt),
         Price_At_Time |-> p.price_now, Plus_1h_Price |-> p.plus_1h,
         Plus_4h_Price |-> p.plus_4h, End_of_Week_Price |-> p.eow_price,
         End_of_Day_Price |-> p.eod_price, Premarket_Price |-> p.premarket]

-----------------------------------------------------------------------------
(* drop_duplicates(subset=["Ticker", "Title", "Datetime"]) *)

Key(e) == <<e.Ticker, e.Title, e.Datetime>>

RECURSIVE KeepFirst(_, _, _)
KeepFirst(s, seen, acc) ==
    IF s = <<>> THEN acc
    ELSE IF Key(Head(s)) \in seen
         THEN KeepFirst(Tail(s), seen, acc)
         ELSE KeepFirst(Tail(s), seen \cup {Key(Head(s))}, Append(acc, Head(s)))

RECURSIVE KeepFirstRow(_, _, _)
KeepFirstRow(s, seen, acc) ==
    IF s = <<>> THEN acc
    ELSE IF Head(s) \in seen
         THEN KeepFirstRow(Tail(s), seen, acc)
         ELSE KeepFirstRow(Tail(s), seen \cup {Head(s)}, Append(acc, Head(s)))

\* a plausible slip: drop_duplicates() without the subset compares whole rows
drop_duplicates_rows(frame) == KeepFirstRow(frame, {}, <<>>)

drop_duplicates(frame) == KeepFirst(frame, {}, <<>>)

-----------------------------------------------------------------------------
(* The main block: sort_values, groupby and price_change_pct *)

SortBefore(a, b) ==
    \/ TickerRank(a.Ticker) < TickerRank(b.Ticker)
    \/ a.Ticker = b.Ticker /\ DtLess(a.Datetime, b.Datetime)

\* e placed behind every row that does not sort after it (a stable sort)
RECURSIVE Insert(_, _)
Insert(e, s) ==
    IF s = <<>> THEN <<e>>
    ELSE IF SortBefore(e, Head(s)) THEN <<e>> \o s
    ELSE <<Head(s)>> \o Insert(e, Tail(s))

RECURSIVE sort_values(_)
sort_values(frame) ==
    IF frame = <<>> THEN <<>>
    ELSE Insert(frame[Len(frame)], sort_values(SubSeq(frame, 1, Len(frame) - 1)))

\* the loop of price_change_pct from position i on: base is the group's i-th
\* price, target the i-th row of the whole frame
RECURSIVE Changes(_, _, _, _)
Changes(price_series, frame, target_col, i) ==
    IF i > Len(price_series) THEN <<>>
    ELSE LET base == price_series[i]
             target == frame[i][target_col]
         IN  (IF IsNumeric(base) /\ IsNumeric(target) /\ base # 0
              THEN <<Rat((target - base) * 100, base)>>
              ELSE <<>>) \o Changes(price_series, frame, target_col, i + 1)

price_change_pct(price_series, frame, target_col) ==
    LET changes == Changes(price_series, frame, target_col, 1)
    IN  IF changes # <<>> THEN RatMean(changes) ELSE Rat(0, 1)

Column(frame, col) == [i \in 1..Len(frame) |-> frame[i][col]]

IntMean(xs) == RatMean([i \in 1..Len(xs) |-> Rat(xs[i], 1)])

\* the tickers of a sorted frame, each once, in order
RECURSIVE GroupKeys(_)
GroupKeys(frame) ==
    IF frame = <<>> THEN <<>>
    ELSE LET t == Head(frame).Ticker
             Other(e) == e.Ticker # t
         IN  <<t>> \o GroupKeys(SelectSeq(frame, Other))

SummaryRow(t, frame) ==
    LET InGroup(e) == e.Ticker = t
        g == SelectSeq(frame, InGroup)
        x == Column(g, "Price_At_Time")
    IN  [Ticker |-> t,
         Avg_Lookup_Score |-> IntMean(Column(g, "Lookup_Score")),
         Avg_VADER_Score |-> IntMean(Column(g, "VADER_Score")),
         Headlines_Count |-> Len(g),
         Avg_1h_Change |-> price_change_pct(x, frame, "Plus_1h_Price"),
         Avg_4h_Change |-> price_change_pct(x, frame, "Plus_4h_Price"),
         Avg_EOD_Change |-> price_change_pct(x, frame, "End_of_Day_Price"),
         Avg_EOW_Change |-> price_change_pct(x, frame, "End_of_Week_Price")]

summary_df(frame) ==
    LET keys == GroupKeys(frame)
    IN  [k \in 1..Len(keys) |-> SummaryRow(keys[k], frame)]

-----------------------------------------------------------------------------
(* The run *)

ThrottleDelay == 20

\* a plausible slip: the delay at the foot of the loop body, which a failed
\* ticker's `continue` skips and the first ticker never sees
SleepAfterSuccess(i, st) ==
    IF i = 1 \/ st[i - 1] = "Failed" THEN 0 ELSE ThrottleDelay

\* asyncio.sleep(20) heads the loop body: the same delay for every ticker
SleepBefore(i, st) == ThrottleDelay

Init ==
    /\ pc = "loop"
    /\ idx = 1
    /\ status = [i \in 1..Len(tickers) |-> "Idle"]
    /\ rowsSeen = 0
    /\ collected = <<>> /\ fetches = <<>>
    /\ clock = 0 /\ sleeps = <<>> /\ attempts = <<>> /\ pageLog = <<>>
    /\ result = <<>> /\ df = <<>> /\ summary = <<>>
    /\ LookupIdle /\ VaderIdle /\ PriceIdle /\ TimeIdle

\* the loop takes the next ticker and starts its delay
Throttle ==
    /\ pc = "loop" /\ idx <= Len(tickers)
    /\ status' = [status EXCEPT ![idx] = "Throttled"]
    /\ sleeps' = Append(sleeps, [ticker |-> tickers[idx], from |-> clock,
                                 to |-> clock + SleepBefore(idx, status)])
    /\ pc' = "sleep"
    /\ UNCHANGED <<idx, rowsSeen, collected, fetches, clock, attempts, pageLog,
                   result, df, summary, lookupVars, vaderVars, priceVars, timeVars>>

\* the delay is over and the quote page is requested
Request ==
    /\ pc = "sleep"
    /\ clock' = sleeps[Len(sleeps)].to
    /\ status' = [status EXCEPT ![idx] = "Fetching"]
    /\ attempts' = Append(attempts, [ticker |-> tickers[idx], at |-> clock'])
    /\ pc' = "fetch"
    /\ UNCHANGED <<idx, rowsSeen, collected, fetches, sleeps, pageLog, result,
                   df, summary, lookupVars, vaderVars, priceVars, timeVars>>

\* requests.get raises: the outer except skips the ticker
FetchError ==
    /\ pc = "fetch"
    /\ \E d \in RequestTimes : clock' = clock + d
    /\ pageLog' = Append(pageLog, [ticker |-> tickers[idx], raised |-> TRUE,
                                   code |-> 0, table |-> FALSE])
    /\ status' = [status EXCEPT ![idx] = "Failed"]
    /\ idx' = idx + 1
    /\ pc' = "loop"
    /\ UNCHANGED <<rowsSeen, collected, fetches, sleeps, attempts, result, df,
                   summary, lookupVars, vaderVars, priceVars, timeVars>>

\* the answer, whatever its status code, holds no news table
NoTable ==
    /\ pc = "fetch"
    /\ \E d \in RequestTimes : clock' = clock + d
    /\ \E code \in StatusCodes :
          pageLog' = Append(pageLog, [ticker |-> tickers[idx], raised |-> FALSE,
                                      code |-> code, table |-> FALSE])
    /\ status' = [status EXCEPT ![idx] = "Failed"]
    /\ idx' = idx + 1
    /\ pc' = "loop"
    /\ UNCHANGED <<rowsSeen, collected, fetches, sleeps, attempts, result, df,
                   summary, lookupVars, vaderVars, priceVars, timeVars>>

\* the answer, whatever its status code, holds a news table
GotTable ==
    /\ pc = "fetch"
    /\ \E d \in RequestTimes : clock' = clock + d
    /\ \E code \in StatusCodes :
          pageLog' = Append(pageLog, [ticker |-> tickers[idx], raised |-> FALSE,
                                      code |-> code, table |-> TRUE])
    /\ status' = [status EXCEPT ![idx] = "Parsing"]
    /\ pc' = "rows"
    /\ UNCHANGED <<idx, rowsSeen, collected, fetches, sleeps, attempts, result,
                   df, summary, lookupVars, vaderVars, priceVars, timeVars>>

\* a row the loop skips
SkipRow ==
    /\ pc = "rows" /\ rowsSeen < MaxRows
    /\ \E row \in Rows : ~Accepted(row)
    /\ rowsSeen' = rowsSeen + 1
    /\ UNCHANGED <<pc, idx, status, collected, fetches, clock, sleeps, attempts,
                   pageLog, result, df, summary, lookupVars, vaderVars,
                   priceVars, timeVars>>

\* a row inside the window: article text, both scores, prices, one event
AcceptRow ==
    /\ pc = "rows" /\ rowsSeen < MaxRows
    /\ \E row \in Rows :
          /\ Accepted(row)
          /\ \E article \in ArticleTexts(row) :
             LET t == tickers[idx]
                 dt == ParseDateText(row.date_text).dt
                 content == IF article # <<>> THEN article ELSE row.title
                 req == HistoryRequest(t, dt)
             IN  \E resp \in PriceResponses(req) :
                    /\ fetches' = Append(fetches, req)
                    /\ collected' = Append(collected,
                          NewsEvent(t, dt, row.title, content,
                                    get_price_change(dt, resp)))
    /\ rowsSeen' = rowsSeen + 1
    /\ UNCHANGED <<pc, idx, status, clock, sleeps, attempts, pageLog, result,
                   df, summary, lookupVars, vaderVars, priceVars, timeVars>>

\* the table has no more rows
EndRows ==
    /\ pc = "rows"
    /\ status' = [status EXCEPT ![idx] = "Done"]
    /\ idx' = idx + 1
    /\ pc' = "loop"
    /\ UNCHANGED <<rowsSeen, collected, fetches, clock, sleeps, attempts,
                   pageLog, result, df, summary, lookupVars, vaderVars,
                   priceVars, timeVars>>

\* the ticker list is exhausted: the events come back without duplicates
Return ==
    /\ pc = "loop" /\ idx > Len(tickers)
    /\ result' = drop_duplicates(collected)
    /\ pc' = "main"
    /\ UNCHANGED <<idx, status, rowsSeen, collected, fetches, clock, sleeps,
                   attempts, pageLog, df, summary, lookupVars, vaderVars,
                   priceVars, timeVars>>

\* the main block: sorted frame and per-ticker summary, or nothing to export
\* (tz_localize(None), the CSV, the workbook and the e-mail change no value
\* the model holds)
Main ==
    /\ pc = "main"
    /\ IF result # <<>>
       THEN /\ df' = sort_values(result)
            /\ summary' = summary_df(df')
       ELSE UNCHANGED <<df, summary>>
    /\ pc' = "done"
    /\ UNCHANGED <<idx, status, rowsSeen, collected, fetches, clock, sleeps,
                   attempts, pageLog, result, lookupVars, vaderVars, priceVars, timeVars>>

Next ==
    \/ Throttle \/ Request \/ FetchError \/ NoTable \/ GotTable
    \/ SkipRow \/ AcceptRow \/ EndRows \/ Return \/ Main

Spec == Init /\ [][Next]_vars

-----------------------------------------------------------------------------
(* The timestamp conversion and the window filter applied to one date cell *)

\* the shapes of a date cell:
\*   today           "Today 03:15PM"
\*   today_embedded  "NewsToday 03:15PM"
\*   abs             "Aug-12-25 03:45PM"
\*   abs_tail        "Aug-12-25 03:45PM ET" (the regex matches, strptime raises)
\*   today_bare      "Today" (split()[1] raises)
\*   time_only       "03:45PM"
\*   other           any other text
Formats == {"today", "today_embedded", "abs", "abs_tail", "today_bare",
            "time_only", "other"}

\* the day before the window, its first and last day, the day after, today
StampDays == {last_monday - 1, last_monday, last_sunday, last_sunday + 1,
              Today}
StampHours == 0..13
StampMinutes == {0, 15, 59, 60}

DateTexts ==
    {DateText(f, d, h, m, a) : f \in Formats, d \in StampDays,
                               h \in StampHours, m \in StampMinutes,
                               a \in {"AM", "PM"}}

InitTime ==
    /\ pc = "stamp"
    /\ dtext \in DateTexts
    /\ stamp = NoStamp
    /\ LookupIdle /\ VaderIdle /\ PriceIdle /\ RunIdle

\* lines 239-259 for one row: kept = the row reaches the price lookup
StampRow ==
    /\ pc = "stamp"
    /\ stamp' = [parsed |-> ParseDateText(dtext).ok,
                 dt |-> ParseDateText(dtext).dt,
                 kept |-> /\ ParseDateText(dtext).ok
                          /\ InWindow(ParseDateText(dtext).dt)]
    /\ pc' = "stamp_done"
    /\ UNCHANGED <<dtext, lookupVars, vaderVars, priceVars, runVars>>

NextTime == StampRow

SpecTime == InitTime /\ [][NextTime]_vars

-----------------------------------------------------------------------------
(* Claims about score_lookup (SpecLookup) *)

PosCount(t) ==
    Cardinality({i \in 1..Len(Tokens(t)) : Tokens(t)[i] \in positive_keywords})
NegCount(t) ==
    Cardinality({i \in 1..Len(Tokens(t)) : Tokens(t)[i] \in negative_keywords})

\* C10: for every text, the score is the sign of (number of positive tokens -
\* number of negative tokens), repeats counted one by one and case ignored,
\* and the ambiguous flag is set exactly when both numbers are above zero.
C10_LexiconScore ==
    pc = "lookup_done" =>
        /\ lookup.score = Sign(PosCount(text) - NegCount(text))
        /\ lookup.ambiguous = (PosCount(text) > 0 /\ NegCount(text) > 0)

\* a text with a repeated positive word in two spellings and one negative word
C10_Witness ==
    /\ pc = "lookup_done"
    /\ \E i \in 1..Len(text) : text[i] = "BEAT"
    /\ PosCount(text) = 2 /\ NegCount(text) = 1
    /\ lookup.score = 1 /\ lookup.ambiguous

-----------------------------------------------------------------------------
(* Claims about classify_sentiment (SpecVader) *)

IsBlank(s) == \A i \in 1..Len(s) : s[i] = " "
NotBlank(s) == ~IsBlank(s)

\* the sentences a reader would count: the candidates that are not blank
Retained(t) == SelectSeq(ReSplit(t, <<>>, <<>>), NotBlank)

VoteOver(sentences) ==
    LET HasPos(s) == polarity_compound(s) >= 3
        HasNeg(s) == polarity_compound(s) <= -3
        total == Len(sentences)
        pos == Len(SelectSeq(sentences, HasPos))
        neg == Len(SelectSeq(sentences, HasNeg))
    IN  IF total > 0 /\ 10 * pos >= 7 * total
        THEN [score |-> 1, label |-> "positive"]
        ELSE IF total > 0 /\ 10 * neg >= 7 * total
        THEN [score |-> -1, label |-> "negative"]
        ELSE [score |-> 0, label |-> "neutral"]

\* C3: the vote runs over the sentences left after the empty and blank
\* candidates are discarded: positive when at least 70% of them have a
\* compound of 0.3 or more, negative when at least 70% have -0.3 or less,
\* neutral otherwise; one positive sentence ending in a period is positive.
C3_SupermajorityVote ==
    pc = "vader_done" => vader = VoteOver(Retained(vtext))

-----------------------------------------------------------------------------
(* Claims about get_price_change (SpecPrice) *)

BarsOnDate == LET OnDate(b) == b.date = pdt.day IN SelectSeq(hist.bars, OnDate)
HasBarOnDate == hist.ok /\ BarsOnDate # <<>>

\* C4 as stated: with a bar on the event's date, priceAtTime is that bar's
\* open before 16:00 and its close from 16:00 on.
C4_OpenBeforeClose ==
    (pc = "price_done" /\ HasBarOnDate) =>
        prices.price_now = IF pdt.hour < 16 THEN BarsOnDate[1].Open
                           ELSE BarsOnDate[1].Close

\* C4 as amended: with a bar on the event's date, priceAtTime is that bar's
\* close whatever the event's time of day (and so equals endOfDayPrice).
C4_CloseAtAnyTime ==
    (pc = "price_done" /\ HasBarOnDate) =>
        /\ prices.price_now = BarsOnDate[1].Close
        /\ prices.price_now = prices.eod_price

\* a morning event on a day whose bar opened and closed at different prices
C4_Witness ==
    /\ pc = "price_done" /\ HasBarOnDate
    /\ pdt.hour < 16
    /\ BarsOnDate[1].Open # BarsOnDate[1].Close
    /\ prices.price_now = BarsOnDate[1].Close

NoBarOnDate == hist.ok /\ hist.bars # <<>> /\ BarsOnDate = <<>>

-----------------------------------------------------------------------------
(* Claims about the summary (Spec) *)

\* the missing mean (NaN), which no number equals
Missing == [n |-> 0, d |-> 0]

\* the horizons: summary column and the event's target price column
Horizons == { <<"Avg_1h_Change", "Plus_1h_Price">>,
              <<"Avg_4h_Change", "Plus_4h_Price">>,
              <<"Avg_EOD_Change", "End_of_Day_Price">>,
              <<"Avg_EOW_Change", "End_of_Week_Price">> }

\* the ticker's own events with a numeric base and a numeric target
OwnValid(t, col) ==
    LET Valid(e) == /\ e.Ticker = t
                    /\ IsNumeric(e.Price_At_Time)
                    /\ IsNumeric(e[col])
    IN  SelectSeq(df, Valid)

OwnChanges(t, col) ==
    [i \in 1..Len(OwnValid(t, col)) |->
        LET e == OwnValid(t, col)[i]
        IN  Rat((e[col] - e.Price_At_Time) * 100, e.Price_At_Time)]

\* C1: a ticker none of whose events has both a numeric base price and a
\* numeric target price for a horizon gets a missing mean for that horizon,
\* never the number 0.
C1_EmptyHorizonMissing ==
    pc = "done" =>
        \A k \in 1..Len(summary) : \A h \in Horizons :
            OwnValid(summary[k].Ticker, h[2]) = <<>>
                => summary[k][h[1]] = Missing

\* C2: each ticker's mean for a horizon is the mean of (target - base) / base
\* * 100 over that ticker's own events with numeric base and target; no other
\* ticker's prices enter it.
C2_PerTickerMeans ==
    pc = "done" =>
        \A k \in 1..Len(summary) : \A h \in Horizons :
            OwnValid(summary[k].Ticker, h[2]) # <<>>
                => summary[k][h[1]] = RatMean(OwnChanges(summary[k].Ticker, h[2]))

-----------------------------------------------------------------------------
(* Claims about the scraping loop (Spec) *)

\* C6 as stated: the price history is fetched at most once per key (ticker,
\* window start, window end), and every fetch covers
\* [window start, window end + 7 days].
C6_FetchOncePerKey ==
    /\ \A i, j \in 1..Len(fetches) :
          i # j => fetches[i].ticker # fetches[j].ticker
    /\ \A i \in 1..Len(fetches) :
          fetches[i].start = start.day /\ fetches[i].end = end.day + 7

\* C6 as amended: the price history is fetched once for every accepted event,
\* nothing is reused, and the i-th fetch asks for the i-th event's ticker
\* from that event's own date up to (not including) the date seven days later.
C6_FetchPerEvent ==
    /\ Len(fetches) = Len(collected)
    /\ \A i \in 1..Len(fetches) :
          /\ fetches[i].ticker = collected[i].Ticker
          /\ fetches[i].start = collected[i].Datetime.day
          /\ fetches[i].end = collected[i].Datetime.day + 7

\* the same headline of one ticker met twice: two fetches of the same range
C6_Witness ==
    /\ Len(fetches) = 2
    /\ fetches[1] = fetches[2]
    /\ Key(collected[1]) = Key(collected[2])
    /\ fetches[1].start # start.day

TickerStatus(t) == status[CHOOSE i \in 1..Len(tickers) : tickers[i] = t]

\* C7: a ticker whose quote-page fetch fails (the request raises, the answer
\* is not a 200, or the news table is missing) ends Failed and contributes no
\* event; every ticker of the list is attempted exactly once, in list order,
\* and the run completes.
C7_FailedTickerSkipped ==
    pc = "done" =>
        /\ \A i \in 1..Len(pageLog) :
              (pageLog[i].raised \/ pageLog[i].code # 200 \/ ~pageLog[i].table)
                 => /\ TickerStatus(pageLog[i].ticker) = "Failed"
                    /\ \A k \in 1..Len(result) :
                          result[k].Ticker # pageLog[i].ticker
        /\ Len(attempts) = Len(tickers)
        /\ \A i \in 1..Len(tickers) : attempts[i].ticker = tickers[i]

InProgress == {"Throttled", "Fetching", "Parsing"}
Finished == {"Done", "Failed"}

\* C8: every quote-page fetch, the first one and those after a failed ticker
\* included, starts the moment a 20-unit delay of its own ends; a ticker
\* leaves Idle only when every ticker before it is Done or Failed, so at most
\* one ticker is throttled, fetching or parsing at any time.
C8_ThrottleAndSequencing ==
    /\ Len(attempts) <= Len(sleeps) /\ Len(sleeps) <= Len(attempts) + 1
    /\ \A i \in 1..Len(sleeps) :
          /\ sleeps[i].ticker = tickers[i]
          /\ sleeps[i].to - sleeps[i].from = 20
    /\ \A i \in 1..Len(attempts) :
          /\ attempts[i].ticker = tickers[i]
          /\ attempts[i].at = sleeps[i].to
          /\ i > 1 => sleeps[i].from >= attempts[i - 1].at
    /\ \A i \in 1..Len(tickers) :
          /\ status[i] # "Idle" =>
                \A j \in 1..(i - 1) : status[j] \in Finished
          /\ status[i] \in {"Fetching", "Parsing", "Done", "Failed"}
                <=> i <= Len(attempts)
          /\ status[i] = "Throttled" <=> (i = Len(sleeps) /\ i > Len(attempts))
    /\ Cardinality({i \in 1..Len(tickers) : status[i] \in InProgress}) <= 1

\* the first ticker is fetched at time 20; its request takes one unit and
\* fails, and the second ticker is fetched 20 units after that
C8_Witness ==
    /\ Len(attempts) = 2
    /\ status[1] = "Failed"
    /\ status[2] = "Fetching"
    /\ attempts[1].at = 20
    /\ sleeps[2].from = 21
    /\ attempts[2].at = 41

\* C9: the returned events never hold two with the same (ticker, title,
\* publishedAt); of a headline collected more than once exactly one event is
\* kept; deduplicating the returned events again changes nothing.
C9_Deduplicated ==
    pc \in {"main", "done"} =>
        /\ \A i, j \in 1..Len(result) :
              Key(result[i]) = Key(result[j]) => i = j
        /\ \A i \in 1..Len(collected) :
              Cardinality({k \in 1..Len(result) :
                              Key(result[k]) = Key(collected[i])}) = 1
        /\ drop_duplicates(result) = result

\* one headline collected twice, with different prices, and kept once
C9_Witness ==
    /\ pc = "done"
    /\ Len(collected) = 2
    /\ Key(collected[1]) = Key(collected[2])
    /\ collected[1] # collected[2]
    /\ result = <<collected[1]>>

-----------------------------------------------------------------------------
(* Claims about the timestamp conversion and the window filter (SpecTime) *)

\* seconds since the start of day 0, for comparing two instants
Secs(dt) == ((dt.day * 24 + dt.hour) * 60 + dt.minute) * 60 + dt.second
NotAfter(a, b) ==
    \/ Secs(a) < Secs(b)
    \/ Secs(a) = Secs(b) /\ a.micro <= b.micro

\* the 24-hour hour of a 12-hour clock reading
ClockHour(h, ampm) ==
    IF h = 12 THEN (IF ampm = "AM" THEN 0 ELSE 12)
    ELSE IF ampm = "PM" THEN h + 12
    ELSE h

WellFormedTime(d) == d.hour \in 1..12 /\ d.minute \in 0..59

\* C11: a "Today HH:MMAM/PM" cell gives an instant on today's date with
\* seconds and microseconds zero and hour 0 for 12AM, 12 for 12PM, H + 12 for
\* any other PM hour and H for any other AM hour; a cell in neither the
\* "Today" nor the absolute format is skipped; a kept row's instant lies in
\* [start, end]; and a well-formed absolute cell whose instant lies in
\* [start, end], start itself included, is kept.
C11_NormalizeAndFilter ==
    pc = "stamp_done" =>
        /\ (dtext.fmt = "today" /\ WellFormedTime(dtext)) =>
              /\ stamp.parsed
              /\ stamp.dt = [day |-> Today,
                             hour |-> ClockHour(dtext.hour, dtext.ampm),
                             minute |-> dtext.minute, second |-> 0,
                             micro |-> 0]
        /\ dtext.fmt \notin {"today", "abs"} => ~stamp.kept
        /\ stamp.kept => NotAfter(start, stamp.dt) /\ NotAfter(stamp.dt, end)
        /\ (/\ dtext.fmt = "abs" /\ WellFormedTime(dtext)
            /\ NotAfter(start, stamp.dt) /\ NotAfter(stamp.dt, end))
              => stamp.kept

\* "Today 12:15AM" has been converted to a quarter past midnight of today
C11_Witness ==
    /\ pc = "stamp_done"
    /\ dtext.fmt = "today" /\ dtext.hour = 12 /\ dtext.minute = 15
    /\ dtext.ampm = "AM"
    /\ stamp.parsed /\ stamp.dt.day = Today /\ stamp.dt.hour = 0
    /\ stamp.dt.minute = 15

=============================================================================
